---- MODULE Spec2Model ----
(***************************************************************************)
(* A model of libdtree (src/libdtree.h): induction of a binary decision    *)
(* tree by exhaustive information-gain split search (best_split), the      *)
(* recursive controller (ldt_grow), majority-vote leaves (classify_asleaf) *)
(* and prediction (dtree_predict_single, dtree_predict).                   *)
(*                                                                         *)
(* Representation.  A C float holding a feature value or a class label is  *)
(* a small non-negative integer.  A float holding a probability, an        *)
(* entropy or a gain is a fixed-point integer with unit One.  A pointer is *)
(* an index into heap, 0 is NULL.  The recursion of ldt_grow is an         *)
(* explicit call stack; the candidate loop of best_split runs one          *)
(* candidate per step inside the frame of the ldt_grow call that asked.    *)
(***************************************************************************)
EXTENDS Integers, Sequences, FiniteSets

VARIABLES
    ncol,    \* number of feature columns, constant over one training call
    param,   \* TreeParam of the training call
    heap,    \* every array of floats: the caller's two, then the malloc'ed partition buffers
    stack,   \* the frames of the active ldt_grow calls, innermost last
    ret,     \* the Tree* the last returned ldt_grow call produced
    done,    \* ghost: what the last returned ldt_grow call was given and what it returned
    fault,   \* ghost: set when a freed or NULL array is read
    phase,   \* "train" while ldt_grow runs, "trained" once dtree_grow has returned
    pred,    \* the locals of dtree_predict and dtree_predict_single
    unit     \* the argument and result of a function called on its own (test_classify)

vars == <<ncol, param, heap, stack, ret, done, fault, phase, pred, unit>>

(***************************************************************************)
(* Bounds of the model, and the values the inputs are drawn from.          *)
(***************************************************************************)
MaxRows == 3
MaxDepth == 2
MaxMinSplit == 2
MaxPredRows == 1
LeafMaxLen == 4
LeafMaxClass == 3

Columns == {1, 2}
TwoValues == {0, 1}
ThreeValues == {0, 1, 2}
Labels == {0, 1}

(***************************************************************************)
(* Fixed-point floats.  Products and quotients round down to a multiple of *)
(* 1/One where the C code rounds to the nearest float; One is fine enough  *)
(* that, on the matrices of this model, gains that differ as reals differ  *)
(* here and the same class counts give the same gain, as with floats.      *)
(***************************************************************************)
One == 1048576

\* Log2Fix[k] is log2f(k) in units of One, for k in 1..8.
Log2Fix == <<0, 1048576, 1661954, 2097152, 2434718, 2710530, 2943725, 3145728>>

(***************************************************************************)
(* List helpers.                                                           *)
(***************************************************************************)
ldt_listcontains(l, x) == \E k \in 1..Len(l) : l[k] = x

RECURSIVE UniqueFrom(_, _, _)
UniqueFrom(arr, k, found) ==
    IF k > Len(arr) THEN found
    ELSE UniqueFrom(arr, k + 1,
                    IF ldt_listcontains(found, arr[k]) THEN found
                    ELSE Append(found, arr[k]))

ldt_listunique(arr) == UniqueFrom(arr, 1, <<>>)

(***************************************************************************)
(* Numeric helpers.                                                        *)
(***************************************************************************)
RECURSIVE ArrmaxFrom(_, _, _)
ArrmaxFrom(x, k, cmax) ==
    IF k > Len(x) THEN cmax
    ELSE ArrmaxFrom(x, k + 1, IF x[k] > cmax THEN x[k] ELSE cmax)

ldt_arrmax(x) == ArrmaxFrom(x, 1, 0)

\* The calloc'ed counters res[0..max], as a function on 0..max.
RECURSIVE BincountFrom(_, _, _)
BincountFrom(x, k, res) ==
    IF k > Len(x) THEN res
    ELSE BincountFrom(x, k + 1, [res EXCEPT ![x[k]] = @ + 1])

ldt_bincount(x) == BincountFrom(x, 1, [c \in 0..ldt_arrmax(x) |-> 0])

\* bc * log2f(bc) for bc = cnt / arrlen, in units of One.
PLog2P(cnt, arrlen) == (cnt * (Log2Fix[cnt] - Log2Fix[arrlen])) \div arrlen

RECURSIVE EntropyFrom(_, _, _, _, _)
EntropyFrom(bc, arrlen, u, k, acc) ==
    IF k > Len(u) THEN acc
    ELSE EntropyFrom(bc, arrlen, u, k + 1,
                     IF bc[u[k]] > 0 THEN acc + PLog2P(bc[u[k]], arrlen) ELSE acc)

entropy(x) == 0 - EntropyFrom(ldt_bincount(x), Len(x), ldt_listunique(x), 1, 0)

gain(parent, left, right) ==
    entropy(parent)
      - ((Len(left) * entropy(left)) \div Len(parent)
         + (Len(right) * entropy(right)) \div Len(parent))

ldt_getcol(data, idxcol, nc, nr) == [r \in 1..nr |-> data[idxcol + nc * (r - 1) + 1]]

ispure(x) == Len(ldt_listunique(x)) = 1

(***************************************************************************)
(* Trees.  A leaf holds isleaf and value; an internal node holds the test  *)
(* and its two children.  NoTree is a Tree* not yet assigned.              *)
(***************************************************************************)
NoTree == [isleaf |-> TRUE, value |-> -1]

Leaf(v) == [isleaf |-> TRUE, value |-> v]

Internal(fi, th, g, l, r) ==
    [isleaf |-> FALSE, featidx |-> fi, thresh |-> th, gain |-> g, lnode |-> l, rnode |-> r]

\* The counters cnt[0..max] of classify_asleaf.
RECURSIVE CntFrom(_, _, _)
CntFrom(target, k, cnt) ==
    IF k > Len(target) THEN cnt
    ELSE CntFrom(target, k + 1, [cnt EXCEPT ![target[k]] = @ + 1])

\* CntBeats with the comparison relaxed: a later class with an equal count wins.
CntBeatsOrTies(c, currmax) == c >= currmax

\* The test of the scan for the most frequent class.
CntBeats(c, currmax) == c > currmax

\* The scan: i runs over 0..max, idxmax is replaced when cnt[i] beats currmax.
RECURSIVE IdxmaxFrom(_, _, _, _, _)
IdxmaxFrom(cnt, max, i, idxmax, currmax) ==
    IF i >= max + 1 THEN idxmax
    ELSE IF CntBeats(cnt[i], currmax)
         THEN IdxmaxFrom(cnt, max, i + 1, i, cnt[i])
         ELSE IdxmaxFrom(cnt, max, i + 1, idxmax, currmax)

classify_asleaf(target) ==
    LET max == ldt_arrmax(target)
        cnt == CntFrom(target, 1, [c \in 0..max |-> 0])
    IN  Leaf(IdxmaxFrom(cnt, max, 0, 0, cnt[0]))

(***************************************************************************)
(* The heap.  heap[1] and heap[2] are the caller's data and target; every  *)
(* later entry is a buffer malloc'ed by best_split.                        *)
(***************************************************************************)
Buf(v) == [live |-> TRUE, frees |-> 0, val |-> v]

malloc(h, v) == Append(h, Buf(v))

\* free forgotten: the buffer stays allocated.
free_forgotten(h, p) == h

free(h, p) == IF p = 0 THEN h ELSE [h EXCEPT ![p].live = FALSE, ![p].frees = @ + 1]

\* The first n floats of the array at p.
Rd(p, n) == IF n = 0 \/ p = 0 THEN <<>> ELSE SubSeq(heap[p].val, 1, n)

\* Reading n floats at p touches freed or NULL memory.
BadRead(p, n) == n > 0 /\ (p = 0 \/ ~heap[p].live)

(***************************************************************************)
(* best_split.                                                             *)
(***************************************************************************)
NullSplit ==
    [featidx |-> 0, thresh |-> 0, ldata |-> 0, ltarget |-> 0, lnrow |-> 0,
     rdata |-> 0, rtarget |-> 0, rnrow |-> 0, gain |-> 0]

\* RowGoesLeft with a strict comparison.
RowGoesLeftStrict(feat, thresh) == feat < thresh

\* The row test of the partition loop.
RowGoesLeft(feat, thresh) == feat <= thresh

\* The four Lists of one candidate, filled row by row.
RECURSIVE SplitRowsFrom(_, _, _, _, _, _, _)
SplitRowsFrom(D, T, nc, f, v, row, acc) ==
    IF row >= Len(T) THEN acc
    ELSE LET r == SubSeq(D, nc * row + 1, nc * row + nc)
         IN  IF RowGoesLeft(D[f + nc * row + 1], v)
             THEN SplitRowsFrom(D, T, nc, f, v, row + 1,
                    [acc EXCEPT !.ld = @ \o r, !.lt = Append(@, T[row + 1])])
             ELSE SplitRowsFrom(D, T, nc, f, v, row + 1,
                    [acc EXCEPT !.rd = @ \o r, !.rt = Append(@, T[row + 1])])

SplitRows(D, T, nc, f, v) ==
    SplitRowsFrom(D, T, nc, f, v, 0, [ld |-> <<>>, lt |-> <<>>, rd |-> <<>>, rt |-> <<>>])

\* A candidate is scored only when both sides hold a row.
ValidParts(parts) == Len(parts.ld) > 0 /\ Len(parts.rd) > 0

\* Improves with the comparison relaxed: a later candidate of equal gain wins.
ImprovesOrTies(g, bestgain) == g >= bestgain

\* The test that makes a candidate the new currbest.
Improves(g, bestgain) == g > bestgain

(***************************************************************************)
(* ldt_grow.                                                               *)
(***************************************************************************)
\* Ghost: what one returned ldt_grow call was given and what it returned.
NoCall == [data |-> <<>>, target |-> <<>>, nrow |-> 0, depth |-> -1, node |-> NoTree]

Frame(d, t, n, depth) ==
    [pc |-> "enter", data |-> d, target |-> t, nrow |-> n, depth |-> depth,
     f |-> 0, i |-> 0, unique |-> <<>>, best |-> NullSplit, bestgain |-> 0,
     left |-> NoTree, lcall |-> NoCall]

\* StopCond with the depth test one level late.
StopCondLateDepth(T, n, depth, p) ==
    ispure(T) \/ n < p.min_sample_split \/ depth = p.maxdepth + 1

\* StopCond with the sample-count test off by one.
StopCondAtMinSplit(T, n, depth, p) ==
    ispure(T) \/ n <= p.min_sample_split \/ depth = p.maxdepth

\* The condition under which ldt_grow returns a leaf.
StopCond(T, n, depth, p) ==
    ispure(T) \/ n < p.min_sample_split \/ depth = p.maxdepth

Top == stack[Len(stack)]

Pop == SubSeq(stack, 1, Len(stack) - 1)

SetTop(fr) == [stack EXCEPT ![Len(stack)] = fr]

\* Ghost: the last returned call, with the Split it used, the contents of the
\* four partition buffers, and its two child calls.
NoDone ==
    [valid |-> FALSE, data |-> <<>>, target |-> <<>>, nrow |-> 0, depth |-> 0,
     node |-> NoTree, best |-> NullSplit, ldata |-> <<>>, ltarget |-> <<>>,
     rdata |-> <<>>, rtarget |-> <<>>, lcall |-> NoCall, rcall |-> NoCall]

CallOf(d) ==
    [data |-> d.data, target |-> d.target, nrow |-> d.nrow, depth |-> d.depth,
     node |-> d.node]

\* ldt_grow returns node: its frame is popped, and dtree_grow returns with it
\* when it was the outermost call.
Return(fr, node, rec) ==
    /\ stack' = Pop
    /\ ret' = node
    /\ done' = rec
    /\ phase' = IF Len(stack) = 1 THEN "trained" ELSE phase

\* The stopping rule holds: the call returns the majority leaf.
GrowLeaf ==
    /\ phase = "train" /\ stack # <<>> /\ Top.pc = "enter"
    /\ LET fr == Top
           T == Rd(fr.target, fr.nrow)
       IN  /\ StopCond(T, fr.nrow, fr.depth, param)
           /\ fault' = (fault \/ BadRead(fr.target, fr.nrow))
           /\ Return(fr, classify_asleaf(T),
                     [NoDone EXCEPT !.valid = TRUE,
                                    !.data = Rd(fr.data, ncol * fr.nrow),
                                    !.target = T, !.nrow = fr.nrow, !.depth = fr.depth,
                                    !.node = classify_asleaf(T)])
    /\ UNCHANGED <<ncol, param, heap, pred, unit>>

\* The stopping rule fails: best_split is entered, up to the unique values
\* of column 0.
GrowSplit ==
    /\ phase = "train" /\ stack # <<>> /\ Top.pc = "enter"
    /\ LET fr == Top
           T == Rd(fr.target, fr.nrow)
           D == Rd(fr.data, ncol * fr.nrow)
       IN  /\ ~StopCond(T, fr.nrow, fr.depth, param)
           /\ fault' = (fault \/ BadRead(fr.target, fr.nrow)
                              \/ BadRead(fr.data, ncol * fr.nrow))
           /\ stack' = SetTop([fr EXCEPT !.pc = "split", !.f = 0, !.i = 0,
                                         !.unique = ldt_listunique(ldt_getcol(D, 0, ncol, fr.nrow)),
                                         !.best = NullSplit, !.bestgain = 0 - One])
    /\ UNCHANGED <<ncol, param, heap, ret, done, phase, pred, unit>>

\* One pass of the threshold loop of best_split: candidate (f, unique[i]).
SplitCandidate ==
    /\ phase = "train" /\ stack # <<>> /\ Top.pc = "split"
    /\ Top.f < ncol /\ Top.i < Len(Top.unique)
    /\ LET fr == Top
           T == Rd(fr.target, fr.nrow)
           D == Rd(fr.data, ncol * fr.nrow)
           parts == SplitRows(D, T, ncol, fr.f, fr.unique[fr.i + 1])
           g == gain(T, parts.lt, parts.rt)
           b == fr.best
           h0 == free(free(free(free(heap, b.ldata), b.ltarget), b.rdata), b.rtarget)
           n0 == Len(heap)
           h1 == malloc(malloc(malloc(malloc(h0, parts.ld), parts.lt), parts.rd), parts.rt)
       IN  /\ fault' = (fault \/ BadRead(fr.target, fr.nrow)
                              \/ BadRead(fr.data, ncol * fr.nrow))
           /\ IF ValidParts(parts) /\ Improves(g, fr.bestgain)
              THEN /\ heap' = h1
                   /\ stack' = SetTop([fr EXCEPT
                          !.i = @ + 1, !.bestgain = g,
                          !.best = [featidx |-> fr.f, thresh |-> fr.unique[fr.i + 1],
                                    gain |-> g,
                                    lnrow |-> Len(parts.lt), rnrow |-> Len(parts.rt),
                                    ldata |-> n0 + 1, ltarget |-> n0 + 2,
                                    rdata |-> n0 + 3, rtarget |-> n0 + 4]])
              ELSE /\ heap' = heap
                   /\ stack' = SetTop([fr EXCEPT !.i = @ + 1])
    /\ UNCHANGED <<ncol, param, ret, done, phase, pred, unit>>

\* The threshold loop of feature f is over: the next column's unique values.
SplitNextFeature ==
    /\ phase = "train" /\ stack # <<>> /\ Top.pc = "split"
    /\ Top.f < ncol /\ Top.i >= Len(Top.unique)
    /\ LET fr == Top
           D == Rd(fr.data, ncol * fr.nrow)
       IN  /\ fault' = (fault \/ (fr.f + 1 < ncol /\ BadRead(fr.data, ncol * fr.nrow)))
           /\ stack' = SetTop([fr EXCEPT
                  !.f = @ + 1, !.i = 0,
                  !.unique = IF fr.f + 1 < ncol
                             THEN ldt_listunique(ldt_getcol(D, fr.f + 1, ncol, fr.nrow))
                             ELSE <<>>])
    /\ UNCHANGED <<ncol, param, heap, ret, done, phase, pred, unit>>

\* best_split returns currbest; ldt_grow calls itself on the left partition.
GrowCallLeft ==
    /\ phase = "train" /\ stack # <<>> /\ Top.pc = "split"
    /\ Top.f >= ncol
    /\ LET fr == Top
       IN  stack' = Append(SetTop([fr EXCEPT !.pc = "left"]),
                           Frame(fr.best.ldata, fr.best.ltarget, fr.best.lnrow, fr.depth + 1))
    /\ UNCHANGED <<ncol, param, heap, ret, done, fault, phase, pred, unit>>

\* The left call has returned; ldt_grow calls itself on the right partition.
GrowCallRight ==
    /\ phase = "train" /\ stack # <<>> /\ Top.pc = "left"
    /\ LET fr == Top
       IN  stack' = Append(SetTop([fr EXCEPT !.pc = "right", !.left = ret,
                                             !.lcall = CallOf(done)]),
                           Frame(fr.best.rdata, fr.best.rtarget, fr.best.rnrow, fr.depth + 1))
    /\ UNCHANGED <<ncol, param, heap, ret, done, fault, phase, pred, unit>>

\* The right call has returned: the internal node is built, the four
\* partition buffers are freed, and the call returns.
GrowFinish ==
    /\ phase = "train" /\ stack # <<>> /\ Top.pc = "right"
    /\ LET fr == Top
           b == fr.best
           n == Internal(b.featidx, b.thresh, b.gain, fr.left, ret)
       IN  /\ heap' = free(free(free(free(heap, b.ldata), b.ltarget), b.rdata), b.rtarget)
           /\ Return(fr, n,
                     [valid |-> TRUE, data |-> Rd(fr.data, ncol * fr.nrow),
                      target |-> Rd(fr.target, fr.nrow), nrow |-> fr.nrow,
                      depth |-> fr.depth, node |-> n, best |-> b,
                      ldata |-> Rd(b.ldata, ncol * b.lnrow), ltarget |-> Rd(b.ltarget, b.lnrow),
                      rdata |-> Rd(b.rdata, ncol * b.rnrow), rtarget |-> Rd(b.rtarget, b.rnrow),
                      lcall |-> fr.lcall, rcall |-> CallOf(done)])
    /\ UNCHANGED <<ncol, param, fault, pred, unit>>

(***************************************************************************)
(* The callers of the library.                                             *)
(***************************************************************************)
\* The data set of example.c: the XOR gate.
ExampleData == <<1, 1, 0, 1, 1, 0, 0, 0>>
ExampleTarget == <<0, 1, 1, 0>>

\* The TreeParam of dtree_grow.
DefaultParam == [maxdepth |-> 5, min_sample_split |-> 1]

IdlePred ==
    [pc |-> "idle", data |-> <<>>, nrow |-> 0, i |-> 0, cnt |-> 0, out |-> <<>>,
     row |-> <<>>, node |-> NoTree]

IdleUnit == [called |-> FALSE, arg |-> <<>>, res |-> NoTree]

\* dtree_grow or dtree_grow_with_param has just called ldt_grow at depth 0.
Training(nc, nr, D, T, p) ==
    /\ ncol = nc
    /\ param = p
    /\ heap = <<Buf(D), Buf(T)>>
    /\ stack = <<Frame(1, 2, nr, 0)>>
    /\ ret = NoTree
    /\ done = NoDone
    /\ fault = FALSE
    /\ phase = "train"
    /\ pred = IdlePred
    /\ unit = IdleUnit

Params ==
    {DefaultParam} \cup
    [maxdepth : 0..MaxDepth, min_sample_split : 0..MaxMinSplit]

\* Some training call on a matrix over feats with parameters from params.
TrainingOn(feats, params) ==
    \E nc \in Columns, nr \in 1..MaxRows, p \in params :
       \E D \in [1..(nc * nr) -> feats], T \in [1..nr -> Labels] :
          Training(nc, nr, D, T, p)

Example == Training(2, 4, ExampleData, ExampleTarget, DefaultParam)

Train ==
    \/ GrowLeaf
    \/ GrowSplit
    \/ SplitCandidate
    \/ SplitNextFeature
    \/ GrowCallLeft
    \/ GrowCallRight
    \/ GrowFinish

(***************************************************************************)
(* Spec: dtree_grow and dtree_grow_with_param on two-valued features.      *)
(***************************************************************************)
Init == Example \/ TrainingOn(TwoValues, Params)

Next == Train

Spec == Init /\ [][Next]_vars

(***************************************************************************)
(* SpecSplit: dtree_grow on three-valued features, so that one column      *)
(* offers several thresholds to best_split.                                *)
(***************************************************************************)
InitSplit == Example \/ TrainingOn(ThreeValues, {DefaultParam})

NextSplit == Train

SpecSplit == InitSplit /\ [][NextSplit]_vars

(***************************************************************************)
(* dtree_predict and dtree_predict_single.                                 *)
(***************************************************************************)
\* DescendsLeft with a strict comparison.
DescendsLeftStrict(feat, thresh) == feat < thresh

\* The test that sends a row to the left child.
DescendsLeft(feat, thresh) == feat <= thresh

\* The caller passes the trained tree and a matrix of nr rows; out is the
\* caller's buffer of nr floats, -1 where nothing has been written.
PredictCall(D, nr) ==
    /\ phase = "trained" /\ pred.pc = "idle"
    /\ pred' = [IdlePred EXCEPT !.pc = "loop", !.data = D, !.nrow = nr,
                                !.out = [k \in 1..nr |-> -1]]
    /\ UNCHANGED <<ncol, param, heap, stack, ret, done, fault, phase, unit>>

\* example.c: predictions on the training matrix itself.
PredictTrainingData ==
    PredictCall(heap[1].val, Len(heap[2].val))

\* Predictions on some other matrix.
PredictOther ==
    \E nr \in 0..MaxPredRows :
       \E D \in [1..(ncol * nr) -> ThreeValues] : PredictCall(D, nr)

\* RowAt with the row offset dropped: every row is a copy of row 0.
RowAtStart(D, i, nc) == [j \in 1..nc |-> D[j]]

\* The calloc'ed row of dtree_predict, filled from data[i .. i + ncol - 1].
RowAt(D, i, nc) == [j \in 1..nc |-> D[i + j]]

\* The loop of dtree_predict: the row at offset i is copied, and
\* dtree_predict_single is called on it at the root.
PredictRow ==
    /\ pred.pc = "loop" /\ pred.i < pred.nrow * ncol
    /\ pred' = [pred EXCEPT !.pc = "walk",
                            !.row = RowAt(pred.data, pred.i, ncol),
                            !.node = ret]
    /\ UNCHANGED <<ncol, param, heap, stack, ret, done, fault, phase, unit>>

\* dtree_predict_single at an internal node: recurse into a child.
PredictDescend ==
    /\ pred.pc = "walk" /\ ~pred.node.isleaf
    /\ pred' = [pred EXCEPT !.node =
                   IF DescendsLeft(pred.row[pred.node.featidx + 1], pred.node.thresh)
                   THEN pred.node.lnode ELSE pred.node.rnode]
    /\ UNCHANGED <<ncol, param, heap, stack, ret, done, fault, phase, unit>>

\* dtree_predict_single at a leaf: its value is stored at out[cnt++], and
\* the loop steps to the next row.
PredictLeaf ==
    /\ pred.pc = "walk" /\ pred.node.isleaf
    /\ pred' = [pred EXCEPT !.pc = "loop",
                            !.out = [@ EXCEPT ![pred.cnt + 1] = pred.node.value],
                            !.cnt = @ + 1, !.i = @ + ncol, !.row = <<>>,
                            !.node = NoTree]
    /\ UNCHANGED <<ncol, param, heap, stack, ret, done, fault, phase, unit>>

\* The loop of dtree_predict ends and the call returns.
PredictReturn ==
    /\ pred.pc = "loop" /\ pred.i >= pred.nrow * ncol
    /\ pred' = [pred EXCEPT !.pc = "done"]
    /\ UNCHANGED <<ncol, param, heap, stack, ret, done, fault, phase, unit>>

Predict ==
    \/ PredictTrainingData
    \/ PredictOther
    \/ PredictRow
    \/ PredictDescend
    \/ PredictLeaf
    \/ PredictReturn

(***************************************************************************)
(* SpecPredict: dtree_grow, then dtree_predict on the grown tree.          *)
(***************************************************************************)
InitPredict == Example \/ TrainingOn(TwoValues, {DefaultParam})

NextPredict == Train \/ Predict

SpecPredict == InitPredict /\ [][NextPredict]_vars

(***************************************************************************)
(* SpecLeaf: classify_asleaf called on its own, as test_classify does.     *)
(***************************************************************************)
TestCases == {<<1, 1, 2, 2, 2>>, <<1, 1, 1, 1, 1>>, <<8>>}

InitLeaf ==
    /\ ncol = 1
    /\ param = DefaultParam
    /\ heap = <<>>
    /\ stack = <<>>
    /\ ret = NoTree
    /\ done = NoDone
    /\ fault = FALSE
    /\ phase = "unit"
    /\ pred = IdlePred
    /\ \E t \in TestCases \cup UNION {[1..n -> 0..LeafMaxClass] : n \in 1..LeafMaxLen} :
          unit = [IdleUnit EXCEPT !.arg = t]

ClassifyCall ==
    /\ phase = "unit" /\ ~unit.called
    /\ unit' = [unit EXCEPT !.called = TRUE, !.res = classify_asleaf(unit.arg)]
    /\ UNCHANGED <<ncol, param, heap, stack, ret, done, fault, phase, pred>>

NextLeaf == ClassifyCall

SpecLeaf == InitLeaf /\ [][NextLeaf]_vars

(***************************************************************************)
(* What the claims speak of, stated on rows and labels.                    *)
(***************************************************************************)
Occurrences(t, c) == Cardinality({k \in 1..Len(t) : t[k] = c})

AllEqual(t) == \A j, k \in 1..Len(t) : t[j] = t[k]

RECURSIVE Height(_)
Height(t) ==
    IF t.isleaf THEN 0
    ELSE LET hl == Height(t.lnode)
             hr == Height(t.rnode)
         IN  1 + (IF hl > hr THEN hl ELSE hr)

\* Feature f (0-based) of row r (1-based) of the flat matrix D.
Cell(D, nc, r, f) == D[nc * (r - 1) + f + 1]

RowOf(D, nc, r) == SubSeq(D, nc * (r - 1) + 1, nc * r)

\* The rows of D, in order, on the left (feature f at most v) or on the right.
RowsOn(D, nc, n, f, v, left) ==
    LET Keep(r) == (Cell(D, nc, r, f) <= v) = left
    IN  SelectSeq([r \in 1..n |-> r], Keep)

LabelsAt(T, idx) == [j \in 1..Len(idx) |-> T[idx[j]]]

FlatRows(D, nc, idx) ==
    [m \in 1..(nc * Len(idx)) |-> Cell(D, nc, idx[((m - 1) \div nc) + 1], (m - 1) % nc)]

\* The candidates <<f, v>> of a matrix: v occurs in column f.
Candidates(D, nc, n) ==
    {c \in (0..(nc - 1)) \X {D[k] : k \in 1..Len(D)} :
        \E r \in 1..n : Cell(D, nc, r, c[1]) = c[2]}

Usable(D, nc, n, c) ==
    /\ Len(RowsOn(D, nc, n, c[1], c[2], TRUE)) > 0
    /\ Len(RowsOn(D, nc, n, c[1], c[2], FALSE)) > 0

GainOf(D, T, nc, n, c) ==
    gain(T, LabelsAt(T, RowsOn(D, nc, n, c[1], c[2], TRUE)),
            LabelsAt(T, RowsOn(D, nc, n, c[1], c[2], FALSE)))

FirstRowWith(D, nc, n, c) ==
    CHOOSE r \in 1..n :
        /\ Cell(D, nc, r, c[1]) = c[2]
        /\ \A q \in 1..(r - 1) : Cell(D, nc, q, c[1]) # c[2]

\* c comes before d in the iteration order of best_split.
Earlier(D, nc, n, c, d) ==
    \/ c[1] < d[1]
    \/ c[1] = d[1] /\ FirstRowWith(D, nc, n, c) < FirstRowWith(D, nc, n, d)

\* The frame whose best_split call has just returned: ldt_grow has taken the
\* Split and entered its left call.
Returned ==
    {k \in 1..(Len(stack) - 1) :
        k = Len(stack) - 1 /\ stack[k].pc = "left" /\ stack[k + 1].pc = "enter"}

FrameData(k) == Rd(stack[k].data, ncol * stack[k].nrow)

FrameTarget(k) == Rd(stack[k].target, stack[k].nrow)

RECURSIVE PredictOne(_, _)
PredictOne(t, row) ==
    IF t.isleaf THEN t.value
    ELSE IF row[t.featidx + 1] <= t.thresh
         THEN PredictOne(t.lnode, row)
         ELSE PredictOne(t.rnode, row)

(***************************************************************************)
(* The claims.                                                             *)
(***************************************************************************)
ExampleTrained ==
    /\ phase = "trained" /\ ncol = 2 /\ param = DefaultParam
    /\ heap[1].val = ExampleData /\ heap[2].val = ExampleTarget

\* C1: dtree_grow (maxdepth 5, min_sample_split 1) on the XOR data set of
\* example.c, then dtree_predict on the same four rows, yields <<0, 1, 1, 0>>
\* in row order.
C1_XorReproduced ==
    (ExampleTrained /\ pred.pc = "done" /\ pred.data = ExampleData /\ pred.nrow = 4)
        => pred.out = <<0, 1, 1, 0>>

C1_Witness ==
    /\ ExampleTrained /\ pred.pc = "done"
    /\ pred.data = ExampleData /\ pred.nrow = 4 /\ pred.cnt = 4
    /\ pred.out = ExampleTarget

\* C2: every ldt_grow call of a training call has 0 <= depth <= maxdepth, the
\* grown tree has at most maxdepth internal nodes on any path, and with
\* maxdepth = 0 it is a single leaf, pure labels or not.
C2_DepthWithinMaxDepth ==
    /\ \A k \in 1..Len(stack) :
          stack[k].depth >= 0 /\ stack[k].depth <= param.maxdepth
    /\ phase = "trained" =>
          /\ Height(ret) <= param.maxdepth
          /\ param.maxdepth = 0 => ret.isleaf

\* A leaf that only the depth rule forced, below the root.
C2_Witness ==
    /\ done.valid /\ done.node.isleaf
    /\ done.depth = param.maxdepth /\ param.maxdepth >= 1
    /\ ~AllEqual(done.target) /\ done.nrow >= param.min_sample_split

\* C5: classify_asleaf on a non-empty sequence of non-negative labels returns
\* a leaf whose value occurs at least as often as every other class, and more
\* often than every lower class; <<0,0,1,1>> gives 0, <<1,1,2,2,2>> gives 2,
\* <<8>> gives 8.
C5_LeafIsLowestMajority ==
    unit.called =>
        /\ unit.res.isleaf
        /\ Occurrences(unit.arg, unit.res.value) >= 1
        /\ \A k \in 1..Len(unit.arg) :
              Occurrences(unit.arg, unit.arg[k]) <= Occurrences(unit.arg, unit.res.value)
        /\ \A c \in 0..(unit.res.value - 1) :
              Occurrences(unit.arg, c) < Occurrences(unit.arg, unit.res.value)
        /\ unit.arg = <<0, 0, 1, 1>> => unit.res.value = 0
        /\ unit.arg = <<1, 1, 2, 2, 2>> => unit.res.value = 2
        /\ unit.arg = <<8>> => unit.res.value = 8

\* A tie between two classes, resolved to the lower one.
C5_Witness ==
    unit.called /\ unit.arg = <<0, 0, 1, 1>> /\ unit.res = Leaf(0)

\* C7: dtree_predict writes exactly nrow outputs, and out[i] is what the
\* traversal from the root gives for row i (left when row[featidx] <= thresh,
\* right otherwise, the value of the leaf reached), in row order.
C7_PredictBatchIsPredictOne ==
    /\ pred.pc \in {"loop", "walk", "done"} =>
          /\ Len(pred.out) = pred.nrow
          /\ pred.cnt <= pred.nrow
          /\ \A r \in 1..pred.cnt :
                pred.out[r] = PredictOne(ret, RowOf(pred.data, ncol, r))
          /\ \A r \in (pred.cnt + 1)..pred.nrow : pred.out[r] = -1
    /\ pred.pc = "done" => pred.cnt = pred.nrow

\* A batch of several rows that reach leaves of different values.
C7_Witness ==
    /\ pred.pc = "done" /\ pred.nrow >= 3 /\ ~ret.isleaf
    /\ pred.out[1] # pred.out[2] /\ pred.out[2] = pred.out[3]
    /\ RowOf(pred.data, ncol, 2) # RowOf(pred.data, ncol, 3)

\* A matrix on which best_split finds no candidate with two non-empty sides.
NoUsableSplit(D, nc, n) == \A c \in Candidates(D, nc, n) : ~Usable(D, nc, n, c)

\* C3: when best_split is called on rows none of whose candidates has two
\* non-empty sides, ldt_grow builds a leaf for those rows, not an internal
\* node over the empty partitions.
C3_NoUsableSplitGivesLeaf ==
    (done.valid /\ done.nrow >= 1 /\ NoUsableSplit(done.data, ncol, done.nrow))
        => done.node.isleaf

\* C4: an ldt_grow call on at least one row returns a leaf exactly when the
\* labels are all equal, or nrow < min_sample_split, or depth = maxdepth;
\* otherwise it returns an internal node that carries featidx, thresh and
\* gain of the Split best_split returned, and whose children are what the
\* calls on that Split's left and right partitions at depth + 1 returned.
C4_LeafIffStoppingRule ==
    (done.valid /\ done.nrow >= 1) =>
        /\ done.node.isleaf <=>
              \/ AllEqual(done.target)
              \/ done.nrow < param.min_sample_split
              \/ done.depth = param.maxdepth
        /\ ~done.node.isleaf =>
              /\ done.node.featidx = done.best.featidx
              /\ done.node.thresh = done.best.thresh
              /\ done.node.gain = done.best.gain
              /\ done.lcall = [data |-> done.ldata, target |-> done.ltarget,
                               nrow |-> done.best.lnrow, depth |-> done.depth + 1,
                               node |-> done.node.lnode]
              /\ done.rcall = [data |-> done.rdata, target |-> done.rtarget,
                               nrow |-> done.best.rnrow, depth |-> done.depth + 1,
                               node |-> done.node.rnode]

\* An internal node over an internal node: the split case, twice.
C4_Witness ==
    /\ done.valid /\ done.nrow >= 3 /\ ~done.node.isleaf
    /\ done.best.lnrow >= 1 /\ done.best.rnrow >= 2
    /\ done.node.lnode.isleaf /\ ~done.node.rnode.isleaf
    /\ done.rcall.depth = done.depth + 1

\* C6: when some candidate has two non-empty sides, best_split returns such a
\* candidate of maximal gain, and every usable candidate that comes before it
\* (features ascending, a column's values in first-occurrence order) has a
\* strictly smaller gain.
C6_FirstMaximalGainWins ==
    \A k \in Returned :
       LET D == FrameData(k)
           T == FrameTarget(k)
           n == stack[k].nrow
           b == stack[k].best
           w == <<b.featidx, b.thresh>>
       IN  (\E c \in Candidates(D, ncol, n) : Usable(D, ncol, n, c)) =>
              /\ w \in Candidates(D, ncol, n)
              /\ Usable(D, ncol, n, w)
              /\ b.gain = GainOf(D, T, ncol, n, w)
              /\ \A c \in Candidates(D, ncol, n) :
                    Usable(D, ncol, n, c) =>
                       /\ GainOf(D, T, ncol, n, c) <= b.gain
                       /\ Earlier(D, ncol, n, c, w) => GainOf(D, T, ncol, n, c) < b.gain

\* Two thresholds of one column tie for the best gain, and the winner is the
\* one met first although it is the larger value.
C6_Witness ==
    \E k \in Returned :
       LET D == FrameData(k)
           T == FrameTarget(k)
           n == stack[k].nrow
           b == stack[k].best
       IN  \E c \in Candidates(D, ncol, n) :
              /\ Usable(D, ncol, n, c)
              /\ c[1] = b.featidx /\ c[2] < b.thresh
              /\ GainOf(D, T, ncol, n, c) = b.gain

\* C8: in a training call with nrow >= 1, ncol >= 1, maxdepth >= 0 and
\* min_sample_split >= 1, ldt_grow is never called with nrow = 0.
C8_GrowAlwaysGetsARow ==
    param.min_sample_split >= 1 => \A k \in 1..Len(stack) : stack[k].nrow >= 1

\* C9: when a usable candidate existed, the Split best_split returns is an
\* exact partition: the left buffers hold the rows with row[featidx] <= thresh,
\* the right buffers the others, whole rows with their own labels, in the
\* original order, lnrow >= 1, rnrow >= 1 and lnrow + rnrow = nrow.
C9_SplitIsExactPartition ==
    \A k \in Returned :
       LET D == FrameData(k)
           T == FrameTarget(k)
           n == stack[k].nrow
           b == stack[k].best
           L == RowsOn(D, ncol, n, b.featidx, b.thresh, TRUE)
           R == RowsOn(D, ncol, n, b.featidx, b.thresh, FALSE)
       IN  (\E c \in Candidates(D, ncol, n) : Usable(D, ncol, n, c)) =>
              /\ b.lnrow = Len(L) /\ b.rnrow = Len(R)
              /\ b.lnrow >= 1 /\ b.rnrow >= 1 /\ b.lnrow + b.rnrow = n
              /\ heap[b.ldata].val = FlatRows(D, ncol, L)
              /\ heap[b.ltarget].val = LabelsAt(T, L)
              /\ heap[b.rdata].val = FlatRows(D, ncol, R)
              /\ heap[b.rtarget].val = LabelsAt(T, R)

\* A split of two-column rows that interleaves the two sides.
C9_Witness ==
    \E k \in Returned :
       LET b == stack[k].best
       IN  /\ ncol = 2 /\ stack[k].nrow = 3 /\ b.lnrow = 2 /\ b.rnrow = 1
           /\ RowsOn(FrameData(k), ncol, 3, b.featidx, b.thresh, TRUE) = <<1, 3>>
           /\ heap[b.ldata].val = RowOf(FrameData(k), 2, 1) \o RowOf(FrameData(k), 2, 3)

\* The partition buffers a Split points to.
BuffersOf(b) == {b.ldata, b.ltarget, b.rdata, b.rtarget} \ {0}

\* C10: every partition buffer best_split allocates is released exactly once,
\* by best_split when a better candidate replaces it or by the ldt_grow call
\* that asked for the split, and then only after both child calls returned;
\* none is read after its release, none is allocated once training has
\* returned, and the caller's data and target are never released.
C10_PartitionBuffersOwned ==
    /\ ~fault
    /\ \A p \in 1..Len(heap) :
          heap[p].frees = (IF heap[p].live THEN 0 ELSE 1)
    /\ Len(heap) >= 2 => heap[1].live /\ heap[2].live
    /\ \A p \in 3..Len(heap) :
          heap[p].live <=>
             \E k \in 1..Len(stack) :
                /\ stack[k].pc \in {"split", "left", "right"}
                /\ p \in BuffersOf(stack[k].best)
    /\ \A k \in 1..Len(stack) :
          \A p \in {stack[k].data, stack[k].target} \ {0} : heap[p].live
    /\ phase = "trained" => \A p \in 3..Len(heap) : ~heap[p].live

\* Training has returned after best_split replaced a Split and ldt_grow
\* released several.
C10_Witness ==
    /\ phase = "trained" /\ Len(heap) >= 14
    /\ \A p \in 3..Len(heap) : heap[p].frees = 1

====
